---------------------------- MODULE Spec2Model ----------------------------
(***************************************************************************)
(* Model of the data processing pipeline of lightning.data.cache.processor *)
(* (DataProcessor, BaseWorker, the downloader and remover targets).        *)
(*                                                                         *)
(* The specifications share the variables:                                 *)
(*   SpecPartition  the partition function _associated_items_to_workers    *)
(*                  applied to bounded inputs;                             *)
(*   SpecFilepaths  the calls of _cached_list_filepaths for one root;      *)
(*   Spec           one node's DataProcessor.run: the coordinator, its     *)
(*                  workers, their downloaders and removers, the queues    *)
(*                  between them and the shared staging directory;         *)
(*   SpecSigint     such a run in which SIGINT may arrive;                 *)
(*   SpecWorker     one worker with its downloaders and its remover;       *)
(*   SpecRemove     two workers whose removers share the staging directory;*)
(*   SpecLive       a run in which nothing fails, under fair scheduling;   *)
(*   SpecProgress   a run of one node, for its progress reports;           *)
(*   SpecRank       the start of a run for every NODE_RANK;                *)
(*   SpecClient     one S3Client of lightning.data.streaming.client.       *)
(***************************************************************************)
EXTENDS Integers, Sequences, FiniteSets, TLC

\* ------------------------------------------------------------------ bounds
\* SpecPartition: item lists of length 0..MaxPartItems, 1..MaxNodes nodes,
\* 1..MaxPartWorkers workers.
MaxPartItems == 6
MaxNodes == 3
MaxPartWorkers == 4

\* ------------------------------------------------------- Python primitives
Min(a, b) == IF a < b THEN a ELSE b

\* s[a:b] of a Python list held as a TLA+ sequence (0-based a, b >= 0; the
\* slice is clamped to the list, and empty when a >= b).
Slice(s, a, b) ==
    IF a >= Min(b, Len(s)) THEN << >> ELSE SubSeq(s, a + 1, Min(b, Len(s)))

\* list(range(n)): the item at position i (0-based) is i.
Range(n) == [i \in 1..n |-> i - 1]

\* The elements of a sequence, as a set.
Elems(s) == {s[i] : i \in 1..Len(s)}

RECURSIVE SumUpTo(_, _)
\* sum(f[i] for i in 0..n-1)
SumUpTo(f, n) == IF n = 0 THEN 0 ELSE f[n - 1] + SumUpTo(f, n - 1)

\* ------------------------------------- DataProcessor._associated_items_to_workers
\* What None stands for where the code returns nothing.
\* Mutant of NoPartition: an empty (begins, items) pair is returned.
NoPartition_pair == [begins |-> << >>, workers_user_items |-> << >>, none |-> FALSE]

NoPartition == [begins |-> << >>, workers_user_items |-> << >>, none |-> TRUE]

\* node_user_items = user_items[start_node:end_node]
node_user_items(user_items, nn, rank) ==
    LET node_size  == Len(user_items) \div nn
        start_node == rank * node_size
        end_node   == IF rank = nn - 1 THEN Len(user_items)
                                       ELSE (rank + 1) * node_size
    IN  Slice(user_items, start_node, end_node)

\* The slice appended for one worker: the code slices user_items, the whole
\* list, with offsets computed inside the node's block.
worker_slice(user_items, node_items, begin, end) == Slice(user_items, begin, end)

\* The (begins, workers_user_items) pair; sequences are 1-based, so worker_idx
\* w of the code is entry w + 1.
associated_items_to_workers(user_items, nn, rank, nw) ==
    IF rank \notin 0..(nn - 1) THEN NoPartition
    ELSE
      LET node_items  == node_user_items(user_items, nn, rank)
          worker_size == Len(node_items) \div nw
          begin(w)    == w * worker_size
          end(w)      == IF w = nw - 1 THEN Len(node_items)
                                       ELSE (w + 1) * worker_size
      IN  [begins             |-> [k \in 1..nw |-> begin(k - 1)],
           workers_user_items |-> [k \in 1..nw |->
                worker_slice(user_items, node_items, begin(k - 1), end(k - 1))],
           none               |-> FALSE]


\* ------------------------------------------------------------------ bounds
\* Spec: at most MaxItems user items, 1..MaxRunNodes nodes, 1..MaxWorkers
\* workers on the node, 1..MaxDownloaders downloaders per worker.
MaxItems == 2
MaxRunNodes == 2
MaxWorkers == 2
MaxDownloaders == 2

WorkerIds == 0..(MaxWorkers - 1)
DownloaderIds == 0..(MaxDownloaders - 1)

\* ------------------------------------------------------------ items, paths
\* A flattened item is a sequence of elements.  An element is a string that
\* starts with root (dir = "root"), or anything else (dir = "none").  The
\* cached counterpart of a path has dir = "cache".
Names == {"a", "b"}
RootPath(n) == [dir |-> "root", name |-> n]
Scalar == [dir |-> "none", name |-> "x"]

\* The item shapes the user's setup callable may return.
ItemShapes == { <<Scalar>>,
                <<RootPath("a")>>,
                <<RootPath("a"), Scalar, RootPath("b")>> }

\* The contents of the staging directory before the run.
PreExisting == { {}, {"a"}, {"a", "b"} }

\* path.replace(from, to) on a string that may start with `from`.
replace(element, from, to) ==
    IF element.dir = from THEN [element EXCEPT !.dir = to] ELSE element

\* isinstance(element, str) and element.startswith(self.root)
is_path(element) == element.dir = "root"

\* The user's prepare_item: an opaque deterministic function of the item.
prepare_item(item) == [prepared |-> item]

\* Queue messages: None, a ready index, a download unit.
NoneMsg == [none |-> TRUE, index |-> 0, paths |-> << >>]
IndexMsg(i) == [none |-> FALSE, index |-> i, paths |-> << >>]
UnitMsg(i, ps) == [none |-> FALSE, index |-> i, paths |-> ps]

VARIABLES
    \* configuration of the run (never changes)
    user_items,           \* what setup(root, filepaths) returned
    num_nodes,            \* NUM_NODES
    node_rank,            \* NODE_RANK
    num_workers,          \* DataProcessor.num_workers
    num_downloaders,      \* DataProcessor.num_downloaders
    delete_cached_files,  \* DataProcessor.delete_cached_files
    worker_type,          \* "thread" | "process"
    remote_scheme,        \* URL scheme of remote_root
    \* coordinator (DataProcessor.run)
    pc,                   \* position of DataProcessor.run
    begins,               \* begins returned by the partition
    workers_user_items,   \* workers_user_items returned by the partition
    workers,              \* len(self.workers)
    term,                 \* index of the final `for w in self.workers` loop
    worker_queue,         \* self.worker_queue
    workers_tracker,      \* self.workers_tracker
    current_total,        \* current_total of the progress loop
    \* workers (BaseWorker), indexed by worker index
    wpc,                  \* position of BaseWorker.run
    items,                \* self.items
    paths,                \* self._paths
    collected_items,      \* self._collected_items
    counter,              \* self._counter
    is_none,              \* is_none of BaseWorker.run
    cur,                  \* r of the loop iteration in progress
    cache,                \* the cache[slot] = value assignments, in order
    cache_done,           \* number of cache.done() calls
    \* queues
    to_download_queues,       \* self._to_download_queues[d]
    download_is_ready_queue,  \* self._download_is_ready_queue
    remove_queue,             \* self._remove_queue
    \* downloader processes, indexed by worker and downloader
    dpc,                  \* position of _download_data_target
    dcur,                 \* its unit in progress and loop index
    \* remover processes, indexed by worker
    rpc,                  \* position of _remove_target
    rcur,                 \* paths still to visit of the list in progress
    \* file system
    files,                \* names present in /cache/<hash>/data
    \* the file listing (DataProcessor._cached_list_filepaths)
    tree,                 \* the file paths under root, in the order of os.walk
    filepaths_txt,        \* /cache/<hash>/filepaths.txt
    returned,             \* history: the lists the calls returned, in order
    walks,                \* history: number of walks of the file system
    \* S3Client (streaming/client.py) and its surroundings
    environ,              \* "LIGHTNING_CLOUD_SPACE_ID" in os.environ, now
    now,                  \* what time() returns, in seconds
    has_cloud_space_id,   \* self._has_cloud_space_id
    refetch_interval,     \* self._refetch_interval
    last_time,            \* self._last_time: << >> is None, <<t>> a time
    client,               \* self._client: 0 is None, k the k-th client built
    built,                \* history: the boto3 clients built, in order
    got,                  \* history: what each read of `client` returned
    \* history (not program state)
    download_calls,       \* s3.download_fileobj calls per worker and index
    found_cached,         \* indices reported by the already-downloaded branch
    remove_requests       \* indices whose paths were put on the remove queue

confVars == <<user_items, num_nodes, node_rank, num_workers, num_downloaders,
              delete_cached_files, worker_type, remote_scheme>>
coordVars == <<pc, begins, workers_user_items, workers, term, worker_queue,
               workers_tracker, current_total>>
workerVars == <<wpc, items, paths, collected_items, counter, is_none, cur,
                cache, cache_done>>
queueVars == <<to_download_queues, download_is_ready_queue, remove_queue>>
dlVars == <<dpc, dcur>>
rmVars == <<rpc, rcur>>
histVars == <<download_calls, found_cached, remove_requests>>
listVars == <<tree, filepaths_txt, returned, walks>>
s3Vars == <<environ, now, has_cloud_space_id, refetch_interval, last_time,
            client, built, got>>
vars == <<confVars, coordVars, workerVars, queueVars, dlVars, rmVars, files,
          histVars, listVars, s3Vars>>


\* --------------------------------------------------------------- initial states
\* Every item list of length 0..n over the item shapes.
ItemLists(n) == UNION {[1..k -> ItemShapes] : k \in 0..n}

\* Nothing spawned, every queue empty: the state after DataProcessor.__init__.
Idle ==
    /\ pc = "setup"
    /\ begins = << >>
    /\ workers_user_items = << >>
    /\ workers = 0
    /\ term = 0
    /\ worker_queue = << >>
    /\ workers_tracker = [w \in WorkerIds |-> 0]
    /\ current_total = 0
    /\ wpc = [w \in WorkerIds |-> "absent"]
    /\ items = [w \in WorkerIds |-> << >>]
    /\ paths = [w \in WorkerIds |-> << >>]
    /\ collected_items = [w \in WorkerIds |-> 0]
    /\ counter = [w \in WorkerIds |-> 0]
    /\ is_none = [w \in WorkerIds |-> 0]
    /\ cur = [w \in WorkerIds |-> 0]
    /\ cache = [w \in WorkerIds |-> << >>]
    /\ cache_done = [w \in WorkerIds |-> 0]
    /\ to_download_queues = [w \in WorkerIds |-> [d \in DownloaderIds |-> << >>]]
    /\ download_is_ready_queue = [w \in WorkerIds |-> << >>]
    /\ remove_queue = [w \in WorkerIds |-> << >>]
    /\ dpc = [w \in WorkerIds |-> [d \in DownloaderIds |-> "absent"]]
    /\ dcur = [w \in WorkerIds |-> [d \in DownloaderIds |-> [unit |-> NoneMsg, k |-> 0]]]
    /\ rpc = [w \in WorkerIds |-> "absent"]
    /\ rcur = [w \in WorkerIds |-> << >>]
    /\ download_calls = [w \in WorkerIds |-> [i \in 0..(MaxItems - 1) |-> 0]]
    /\ found_cached = [w \in WorkerIds |-> {}]
    /\ remove_requests = [w \in WorkerIds |-> << >>]

\* filepaths.txt does not exist.
NoFile == [exists |-> FALSE, text |-> << >>]

\* No call of _cached_list_filepaths is followed: an empty root, never listed.
NotListed ==
    /\ tree = << >>
    /\ filepaths_txt = NoFile
    /\ returned = << >>
    /\ walks = 0

\* No S3Client is followed: one constructed outside a cloud context and
\* never read.
NoClient ==
    /\ environ = FALSE
    /\ now = 0
    /\ has_cloud_space_id = FALSE
    /\ refetch_interval = 0
    /\ last_time = << >>
    /\ client = 0
    /\ built = << >>
    /\ got = << >>

Init ==
    /\ NotListed
    /\ NoClient
    /\ user_items \in ItemLists(MaxItems)
    /\ num_nodes \in 1..MaxRunNodes
    /\ node_rank \in 0..(num_nodes - 1)
    /\ num_workers \in 1..MaxWorkers
    /\ num_downloaders \in 1..MaxDownloaders
    /\ delete_cached_files \in BOOLEAN
    /\ worker_type \in {"thread", "process"}
    /\ remote_scheme \in {"s3", "file"}
    /\ files \in PreExisting
    /\ Idle

\* The inputs of the partition function alone: item lists range(n).
InitPartition ==
    /\ NotListed
    /\ NoClient
    /\ user_items \in {Range(n) : n \in 0..MaxPartItems}
    /\ num_nodes \in 1..MaxNodes
    /\ node_rank \in 0..(num_nodes - 1)
    /\ num_workers \in 1..MaxPartWorkers
    /\ num_downloaders = 1
    /\ delete_cached_files = FALSE
    /\ worker_type = "process"
    /\ remote_scheme = "s3"
    /\ files = {}
    /\ Idle

\* ------------------------------------------------------ DataProcessor.run
\* begins, workers_user_items = self._associated_items_to_workers(user_items)
Associate ==
    /\ pc = "setup"
    /\ LET r == associated_items_to_workers(user_items, num_nodes, node_rank,
                                            num_workers)
       IN  IF r.none
           THEN /\ pc' = "error"
                /\ UNCHANGED <<begins, workers_user_items>>
           ELSE /\ pc' = "create_workers"
                /\ begins' = r.begins
                /\ workers_user_items' = r.workers_user_items
    /\ UNCHANGED <<workers, term, worker_queue, workers_tracker, current_total>>
    /\ UNCHANGED <<confVars, listVars, s3Vars, workerVars, queueVars, dlVars, rmVars, files, histVars>>

\* One iteration of the loop of _create_thread_workers / _create_process_workers:
\* the worker is constructed with its items and started.
CreateWorker ==
    /\ pc = "create_workers"
    /\ workers < num_workers
    /\ wpc' = [wpc EXCEPT ![workers] = "start"]
    /\ items' = [items EXCEPT ![workers] = workers_user_items[workers + 1]]
    /\ workers' = workers + 1
    /\ pc' = IF workers + 1 < num_workers THEN "create_workers"
             ELSE IF worker_type = "thread" THEN "wait_collected"
             ELSE "progress"
    /\ UNCHANGED <<begins, workers_user_items, term, worker_queue,
                   workers_tracker, current_total>>
    /\ UNCHANGED <<paths, collected_items, counter, is_none, cur, cache, cache_done>>
    /\ UNCHANGED <<confVars, listVars, s3Vars, queueVars, dlVars, rmVars, files, histVars>>

\* sum([len(items) for items in workers_user_items])
num_items == SumUpTo([w \in 0..(num_workers - 1) |-> Len(workers_user_items[w + 1])],
                     num_workers)

\* The wait loop of _create_thread_workers ends when the workers have
\* collected len(user_items) items.
WaitCollected ==
    /\ pc = "wait_collected"
    /\ SumUpTo(collected_items, workers) = Len(user_items)
    /\ pc' = "progress"
    /\ UNCHANGED <<begins, workers_user_items, workers, term, worker_queue,
                   workers_tracker, current_total>>
    /\ UNCHANGED <<confVars, listVars, s3Vars, workerVars, queueVars, dlVars, rmVars, files, histVars>>

\* Thread mode: one poll of the progress loop that changes something.
ProgressThread ==
    /\ pc = "progress"
    /\ worker_type = "thread"
    /\ LET new_total == SumUpTo(counter, workers)
       IN  /\ new_total # current_total \/ new_total = num_items
           /\ current_total' = new_total
           /\ pc' = IF new_total = num_items THEN "terminate" ELSE "progress"
    /\ UNCHANGED <<begins, workers_user_items, workers, term, worker_queue,
                   workers_tracker>>
    /\ UNCHANGED <<confVars, listVars, s3Vars, workerVars, queueVars, dlVars, rmVars, files, histVars>>

\* Mutant of ProgressProcess: the received counter is added to the total.
ProgressProcess_adds ==
    /\ pc = "progress"
    /\ worker_type = "process"
    /\ worker_queue # << >>
    /\ LET m == Head(worker_queue)
           new_total == current_total + m[2]
       IN  /\ workers_tracker' = [workers_tracker EXCEPT ![m[1]] = m[2]]
           /\ current_total' = new_total
           /\ pc' = IF new_total = num_items THEN "terminate" ELSE "progress"
    /\ worker_queue' = Tail(worker_queue)
    /\ UNCHANGED <<begins, workers_user_items, workers, term>>
    /\ UNCHANGED <<confVars, listVars, s3Vars, workerVars, queueVars, dlVars, rmVars, files, histVars>>

\* Process mode: index, counter = self.worker_queue.get() and the update.
ProgressProcess ==
    /\ pc = "progress"
    /\ worker_type = "process"
    /\ worker_queue # << >>
    /\ LET m == Head(worker_queue)
           tracker == [workers_tracker EXCEPT ![m[1]] = m[2]]
           new_total == SumUpTo(tracker, MaxWorkers)
       IN  /\ workers_tracker' = tracker
           /\ current_total' = new_total
           /\ pc' = IF new_total = num_items THEN "terminate" ELSE "progress"
    /\ worker_queue' = Tail(worker_queue)
    /\ UNCHANGED <<begins, workers_user_items, workers, term>>
    /\ UNCHANGED <<confVars, listVars, s3Vars, workerVars, queueVars, dlVars, rmVars, files, histVars>>

\* Mutant of killed_if_alive: kill() has no effect.
killed_if_alive_never(p) == p

\* A process that is running is killed; one that never started or has
\* ended is left as it is.
killed_if_alive(p) == IF p \in {"absent", "returned", "raised"} THEN p ELSE "killed"

\* w.join(0) of a DataWorkerThread (its downloaders and its remover are
\* killed, the thread itself keeps running) or w.kill() of a
\* DataWorkerProcess (its sub-processes are not touched).
TerminateWorker(w) ==
    IF worker_type = "thread"
    THEN /\ dpc' = [dpc EXCEPT ![w] = [d \in DownloaderIds |->
                                         killed_if_alive(dpc[w][d])]]
         /\ rpc' = [rpc EXCEPT ![w] = killed_if_alive(rpc[w])]
         /\ UNCHANGED wpc
    ELSE /\ wpc' = [wpc EXCEPT ![w] = killed_if_alive(wpc[w])]
         /\ UNCHANGED <<dpc, rpc>>

\* One iteration of the final loop: w.join(0) or w.kill().
Terminate ==
    /\ pc = "terminate"
    /\ TerminateWorker(term)
    /\ term' = term + 1
    /\ pc' = IF term + 1 < workers THEN "terminate" ELSE "finished"
    /\ UNCHANGED <<begins, workers_user_items, workers, worker_queue,
                   workers_tracker, current_total>>
    /\ UNCHANGED <<items, paths, collected_items, counter, is_none, cur, cache,
                   cache_done, dcur, rcur>>
    /\ UNCHANGED <<confVars, listVars, s3Vars, queueVars, files, histVars>>

\* signal.signal(signal.SIGINT, self._signal_handler) has been executed.
handler_installed ==
    pc \in {"create_workers", "wait_collected", "progress", "terminate", "finished"}

\* SIGINT: self._signal_handler runs to its end.  Each worker in self.workers
\* gets join(0) (thread: its downloaders and its remover are killed) or kill()
\* (process: the worker is killed, its sub-processes are not touched); then
\* os._exit(0) ends the main process, and with it the worker threads.
Sigint ==
    /\ handler_installed
    /\ pc' = "exited"
    /\ wpc' = [w \in WorkerIds |-> killed_if_alive(wpc[w])]
    /\ IF worker_type = "thread"
       THEN /\ dpc' = [w \in WorkerIds |-> [d \in DownloaderIds |->
                                               killed_if_alive(dpc[w][d])]]
            /\ rpc' = [w \in WorkerIds |-> killed_if_alive(rpc[w])]
       ELSE UNCHANGED <<dpc, rpc>>
    /\ UNCHANGED <<begins, workers_user_items, workers, term, worker_queue,
                   workers_tracker, current_total>>
    /\ UNCHANGED <<items, paths, collected_items, counter, is_none, cur, cache,
                   cache_done, dcur, rcur>>
    /\ UNCHANGED <<confVars, listVars, s3Vars, queueVars, files, histVars>>

\* -------------------------------------------------------------- BaseWorker
\* The paths of one item: its elements that start with root, in order.
item_paths(item) == SelectSeq(item, is_path)

\* The item with every such element replaced by its cached counterpart.
item_cached(item) == [j \in 1..Len(item) |-> replace(item[j], "root", "cache")]

\* Mutant of without_paths: the check for items without file paths never fires.
without_paths_never(its) == {}

\* Positions (1-based) of the items without any file path.
without_paths(its) == {k \in 1..Len(its) : item_paths(its[k]) = << >>}

\* The first such position.
first_without_paths(its) ==
    CHOOSE k \in without_paths(its) : \A j \in without_paths(its) : k <= j

\* self._create_cache(); self._collect_paths()
WorkerCollect(w) ==
    /\ wpc[w] = "start"
    /\ IF without_paths(items[w]) # {}
       THEN \* ValueError at the first item without file paths
            LET n == first_without_paths(items[w]) - 1
            IN  /\ wpc' = [wpc EXCEPT ![w] = "raised"]
                /\ paths' = [paths EXCEPT ![w] =
                                [k \in 1..n |-> item_paths(items[w][k])]]
                /\ collected_items' = [collected_items EXCEPT ![w] = n]
                /\ UNCHANGED items
       ELSE /\ wpc' = [wpc EXCEPT ![w] = "collected"]
            /\ paths' = [paths EXCEPT ![w] =
                            [k \in 1..Len(items[w]) |-> item_paths(items[w][k])]]
            /\ items' = [items EXCEPT ![w] =
                            [k \in 1..Len(items[w]) |-> item_cached(items[w][k])]]
            /\ collected_items' = [collected_items EXCEPT ![w] = Len(items[w])]
    /\ UNCHANGED <<counter, is_none, cur, cache, cache_done>>
    /\ UNCHANGED <<confVars, listVars, s3Vars, coordVars, queueVars, dlVars, rmVars, files, histVars>>

RECURSIVE str(_)
\* The decimal text of an integer, as an f-string formats it.
str(n) ==
    IF n < 0 THEN <<"-">> \o str(0 - n)
    ELSE IF n < 10 THEN <<<<"0", "1", "2", "3", "4", "5", "6", "7", "8", "9">>[n + 1]>>
    ELSE str(n \div 10) \o str(n % 10)

\* Mutant of cache_dir: the node rank is left out of the directory name.
cache_dir_without_rank(rank, index) ==
    <<"/", "cache", "/", "hash", "/", "w", "_">> \o str(index)

\* cache_dir = f"/cache/{root_hash}/w_{self.node_rank}_{self.index}", the
\* directory of the worker's chunk cache; every worker of the job has the
\* same root, hence the same root_hash.
cache_dir(rank, index) ==
    <<"/", "cache", "/", "hash", "/", "w", "_">> \o str(rank) \o <<"_">> \o str(index)

\* Mutant of downloader_queue: the sentinel is put before the units.
downloader_queue_sentinel_first(ps, n, d) ==
    <<NoneMsg>> \o SelectSeq([i \in 1..Len(ps) |-> UnitMsg(i - 1, ps[i])],
                             LAMBDA u : u.index % n = d)

\* What _start_downloaders puts on the queue of downloader d of n: the units
\* (index, paths) with index % n = d in index order, then None.
downloader_queue(ps, n, d) ==
    SelectSeq([i \in 1..Len(ps) |-> UnitMsg(i - 1, ps[i])],
              LAMBDA u : u.index % n = d) \o <<NoneMsg>>

\* self._start_downloaders(); self._start_remover()
WorkerStart(w) ==
    /\ wpc[w] = "collected"
    /\ wpc' = [wpc EXCEPT ![w] = "loop"]
    /\ to_download_queues' = [to_download_queues EXCEPT ![w] =
          [d \in DownloaderIds |->
              IF d < num_downloaders
              THEN downloader_queue(paths[w], num_downloaders, d) ELSE << >>]]
    /\ dpc' = [dpc EXCEPT ![w] =
          [d \in DownloaderIds |-> IF d < num_downloaders THEN "get" ELSE "absent"]]
    /\ rpc' = [rpc EXCEPT ![w] = IF delete_cached_files THEN "get" ELSE "absent"]
    /\ UNCHANGED <<items, paths, collected_items, counter, is_none, cur, cache,
                   cache_done, download_is_ready_queue, remove_queue, dcur, rcur>>
    /\ UNCHANGED <<confVars, listVars, s3Vars, coordVars, files, histVars>>

\* Mutant of assign: the value is appended at the next free slot instead of
\* being stored at its index.
assign_append(log, r, start_index, value) ==
    Append(log, [slot |-> Len(log) + start_index, value |-> value])

\* self.cache[r + self.start_index] = value, on the log of assignments.
assign(log, r, start_index, value) ==
    Append(log, [slot |-> r + start_index, value |-> value])

\* Mutant of all_sentinels: the first sentinel ends the loop.
all_sentinels_any(n, nd) == n >= 1

\* is_none == self.num_downloaders
all_sentinels(n, nd) == n = nd

\* One iteration of the loop of BaseWorker.run, up to and including the put
\* on the worker queue.
WorkerGet(w) ==
    /\ wpc[w] = "loop"
    /\ download_is_ready_queue[w] # << >>
    /\ LET r == Head(download_is_ready_queue[w])
       IN  /\ download_is_ready_queue' =
                 [download_is_ready_queue EXCEPT ![w] = Tail(@)]
           /\ IF r.none
              THEN /\ is_none' = [is_none EXCEPT ![w] = @ + 1]
                   /\ IF all_sentinels(is_none[w] + 1, num_downloaders)
                      THEN /\ remove_queue' = [remove_queue EXCEPT ![w] =
                                                  Append(@, NoneMsg)]
                           /\ cache_done' = [cache_done EXCEPT ![w] = @ + 1]
                           /\ wpc' = [wpc EXCEPT ![w] = "returned"]
                      ELSE UNCHANGED <<remove_queue, cache_done, wpc>>
                   /\ UNCHANGED <<cache, counter, cur, worker_queue>>
              ELSE /\ cache' = [cache EXCEPT ![w] =
                          assign(@, r.index, begins[w + 1],
                                 prepare_item(items[w][r.index + 1]))]
                   /\ counter' = [counter EXCEPT ![w] = @ + 1]
                   /\ worker_queue' = IF worker_type = "process"
                                      THEN Append(worker_queue, <<w, counter[w] + 1>>)
                                      ELSE worker_queue
                   /\ cur' = [cur EXCEPT ![w] = r.index]
                   /\ wpc' = [wpc EXCEPT ![w] =
                                 IF delete_cached_files THEN "put_remove" ELSE "loop"]
                   /\ UNCHANGED <<is_none, remove_queue, cache_done>>
    /\ UNCHANGED <<items, paths, collected_items, to_download_queues>>
    /\ UNCHANGED <<pc, begins, workers_user_items, workers, term,
                   workers_tracker, current_total>>
    /\ UNCHANGED <<confVars, listVars, s3Vars, dlVars, rmVars, files, histVars>>

\* Mutant of WorkerPutRemove: the put waits for a remover that is alive.
WorkerPutRemove_waits(w) ==
    /\ wpc[w] = "put_remove"
    /\ rpc[w] \notin {"raised", "killed"}
    /\ remove_queue' = [remove_queue EXCEPT ![w] =
                           Append(@, UnitMsg(cur[w], paths[w][cur[w] + 1]))]
    /\ remove_requests' = [remove_requests EXCEPT ![w] =
                              Append(@, [index |-> cur[w],
                                         paths |-> paths[w][cur[w] + 1]])]
    /\ wpc' = [wpc EXCEPT ![w] = "loop"]
    /\ UNCHANGED <<items, paths, collected_items, counter, is_none, cur, cache,
                   cache_done, to_download_queues, download_is_ready_queue>>
    /\ UNCHANGED <<download_calls, found_cached>>
    /\ UNCHANGED <<confVars, listVars, s3Vars, coordVars, dlVars, rmVars, files>>

\* if self.remove: self._remove_queue.put(self._paths[r])
WorkerPutRemove(w) ==
    /\ wpc[w] = "put_remove"
    /\ remove_queue' = [remove_queue EXCEPT ![w] =
                           Append(@, UnitMsg(cur[w], paths[w][cur[w] + 1]))]
    /\ remove_requests' = [remove_requests EXCEPT ![w] =
                              Append(@, [index |-> cur[w],
                                         paths |-> paths[w][cur[w] + 1]])]
    /\ wpc' = [wpc EXCEPT ![w] = "loop"]
    /\ UNCHANGED <<items, paths, collected_items, counter, is_none, cur, cache,
                   cache_done, to_download_queues, download_is_ready_queue>>
    /\ UNCHANGED <<download_calls, found_cached>>
    /\ UNCHANGED <<confVars, listVars, s3Vars, coordVars, dlVars, rmVars, files>>

\* ------------------------------------------------------ _download_data_target
\* The file names, in the staging directory, of a list of paths under root.
CachedNames(ps) == {ps[k].name : k \in 1..Len(ps)}

\* Mutant of all_exist: any() instead of all().
all_exist_any(ps, fs) ==
    \E k \in 1..Len(ps) : replace(ps[k], "root", "cache").name \in fs

\* Mutant of all_exist: the check for already downloaded files never passes.
all_exist_never(ps, fs) == FALSE

\* all(os.path.exists(p.replace(root, cache_dir)) for p in paths)
all_exist(ps, fs) ==
    \A k \in 1..Len(ps) : replace(ps[k], "root", "cache").name \in fs

\* Mutant of bad_scheme: every URL scheme is accepted.
bad_scheme_never(scheme) == FALSE

\* obj.scheme != "s3"
bad_scheme(scheme) == scheme # "s3"

\* r = queue_in.get() and what follows up to the download loop.
DownloaderGet(w, d) ==
    /\ dpc[w][d] = "get"
    /\ to_download_queues[w][d] # << >>
    /\ LET r == Head(to_download_queues[w][d])
       IN  /\ to_download_queues' = [to_download_queues EXCEPT ![w][d] = Tail(@)]
           /\ IF r.none
              THEN /\ download_is_ready_queue' =
                         [download_is_ready_queue EXCEPT ![w] = Append(@, NoneMsg)]
                   /\ dpc' = [dpc EXCEPT ![w][d] = "returned"]
                   /\ UNCHANGED dcur
              ELSE IF all_exist(r.paths, files)
              THEN /\ download_is_ready_queue' =
                         [download_is_ready_queue EXCEPT ![w] =
                             Append(@, IndexMsg(r.index))]
                   /\ UNCHANGED <<dpc, dcur>>
              ELSE /\ dpc' = [dpc EXCEPT ![w][d] = "download"]
                   /\ dcur' = [dcur EXCEPT ![w][d] = [unit |-> r, k |-> 1]]
                   /\ UNCHANGED download_is_ready_queue
           \* history: the unit was taken with every cached file present
           /\ found_cached' = IF ~r.none /\ CachedNames(r.paths) \subseteq files
                              THEN [found_cached EXCEPT ![w] = @ \cup {r.index}]
                              ELSE found_cached
    /\ UNCHANGED <<remove_queue, rpc, rcur, files, download_calls, remove_requests>>
    /\ UNCHANGED <<confVars, listVars, s3Vars, coordVars, workerVars>>

\* One iteration of `for path in paths`: the scheme check, then the download
\* into the staging directory.
DownloaderDownload(w, d) ==
    /\ dpc[w][d] = "download"
    /\ LET u == dcur[w][d].unit
           k == dcur[w][d].k
       IN  IF bad_scheme(remote_scheme)
           THEN /\ dpc' = [dpc EXCEPT ![w][d] = "raised"]
                /\ UNCHANGED <<dcur, files, download_calls>>
           ELSE /\ files' = files \cup {replace(u.paths[k], "root", "cache").name}
                /\ download_calls' = [download_calls EXCEPT ![w][u.index] = @ + 1]
                /\ IF k < Len(u.paths)
                   THEN /\ dcur' = [dcur EXCEPT ![w][d].k = k + 1]
                        /\ UNCHANGED dpc
                   ELSE /\ dpc' = [dpc EXCEPT ![w][d] = "put"]
                        /\ UNCHANGED dcur
    /\ UNCHANGED <<rpc, rcur, found_cached, remove_requests>>
    /\ UNCHANGED <<confVars, listVars, s3Vars, coordVars, workerVars, queueVars>>

\* Mutant of DownloaderPut: after the download loop nothing is put.
DownloaderPut_nothing(w, d) ==
    /\ dpc[w][d] = "put"
    /\ dpc' = [dpc EXCEPT ![w][d] = "get"]
    /\ UNCHANGED <<to_download_queues, download_is_ready_queue, remove_queue, dcur>>
    /\ UNCHANGED <<confVars, listVars, s3Vars, coordVars, workerVars, rmVars, files, histVars>>

\* queue_out.put(index) after the download loop.
DownloaderPut(w, d) ==
    /\ dpc[w][d] = "put"
    /\ download_is_ready_queue' =
          [download_is_ready_queue EXCEPT ![w] = Append(@, IndexMsg(dcur[w][d].unit.index))]
    /\ dpc' = [dpc EXCEPT ![w][d] = "get"]
    /\ UNCHANGED <<to_download_queues, remove_queue, dcur>>
    /\ UNCHANGED <<confVars, listVars, s3Vars, coordVars, workerVars, rmVars, files, histVars>>

\* ------------------------------------------------------------- _remove_target
\* paths = queue_in.get()
RemoverGet(w) ==
    /\ rpc[w] = "get"
    /\ remove_queue[w] # << >>
    /\ LET r == Head(remove_queue[w])
       IN  /\ remove_queue' = [remove_queue EXCEPT ![w] = Tail(@)]
           /\ IF r.none
              THEN /\ rpc' = [rpc EXCEPT ![w] = "returned"]
                   /\ UNCHANGED rcur
              ELSE /\ rpc' = [rpc EXCEPT ![w] = "remove"]
                   /\ rcur' = [rcur EXCEPT ![w] = r.paths]
    /\ UNCHANGED <<to_download_queues, download_is_ready_queue>>
    /\ UNCHANGED <<confVars, listVars, s3Vars, coordVars, workerVars, dlVars, files, histVars>>

\* One iteration of `for path in paths`, up to os.path.exists(cached_filepath).
RemoverExists(w) ==
    /\ rpc[w] = "remove"
    /\ IF rcur[w] = << >>
       THEN /\ rpc' = [rpc EXCEPT ![w] = "get"]
            /\ UNCHANGED rcur
       ELSE IF replace(Head(rcur[w]), "root", "cache").name \in files
       THEN /\ rpc' = [rpc EXCEPT ![w] = "unlink"]
            /\ UNCHANGED rcur
       ELSE /\ rcur' = [rcur EXCEPT ![w] = Tail(@)]
            /\ UNCHANGED rpc
    /\ UNCHANGED <<confVars, listVars, s3Vars, coordVars, workerVars, queueVars, dlVars, files, histVars>>

\* os.remove(cached_filepath): FileNotFoundError when the file has gone since
\* the check (the staging directory is shared by the workers of the node).
RemoverRemove(w) ==
    /\ rpc[w] = "unlink"
    /\ IF replace(Head(rcur[w]), "root", "cache").name \in files
       THEN /\ files' = files \ {replace(Head(rcur[w]), "root", "cache").name}
            /\ rcur' = [rcur EXCEPT ![w] = Tail(@)]
            /\ rpc' = [rpc EXCEPT ![w] = "remove"]
       ELSE /\ rpc' = [rpc EXCEPT ![w] = "raised"]
            /\ UNCHANGED <<rcur, files>>
    /\ UNCHANGED <<confVars, listVars, s3Vars, coordVars, workerVars, queueVars, dlVars, histVars>>

\* ---------------------------------------- DataProcessor._cached_list_filepaths
\* SpecFilepaths: at most MaxFiles files under root, at most MaxCalls calls.
MaxFiles == 2
MaxCalls == 3

\* A string is a sequence of characters.  The file names under root: plain
\* ones, and one with a newline character in it.
FileNames == { <<"a">>, <<"b">>, <<"a", "\n", "b">> }

\* The resolved root directory.
RootDir == <<"r">>

\* os.path.join(dirpath, filename)
join(dirpath, filename) == dirpath \o <<"/">> \o filename

\* What the walk of a root can yield: up to MaxFiles different files, in the
\* order of os.walk.
Trees ==
    {t \in UNION {[1..k -> {join(RootDir, n) : n \in FileNames}] : k \in 0..MaxFiles} :
        \A i, j \in 1..Len(t) : t[i] = t[j] => i = j}

RECURSIVE write_lines(_)
\* for filepath in filepaths: f.write(f"{filepath}\n")
write_lines(filepaths) ==
    IF filepaths = << >> THEN << >>
    ELSE Head(filepaths) \o <<"\n">> \o write_lines(Tail(filepaths))

\* The length of the first line of a text, its newline included.
first_line_len(text) ==
    IF \E k \in 1..Len(text) : text[k] = "\n"
    THEN CHOOSE k \in 1..Len(text) :
            text[k] = "\n" /\ \A j \in 1..(k - 1) : text[j] # "\n"
    ELSE Len(text)

RECURSIVE readlines(_)
\* f.readlines(): the text cut after each newline character.
readlines(text) ==
    IF text = << >> THEN << >>
    ELSE <<SubSeq(text, 1, first_line_len(text))>>
             \o readlines(SubSeq(text, first_line_len(text) + 1, Len(text)))

\* line.replace("\n", "")
remove_newlines(line) == SelectSeq(line, LAMBDA c : c # "\n")

\* The list read back from filepaths.txt.
read_lines(text) ==
    [k \in 1..Len(readlines(text)) |-> remove_newlines(readlines(text)[k])]

\* One call of _cached_list_filepaths(root).
CachedListFilepaths ==
    /\ Len(returned) < MaxCalls
    /\ IF filepaths_txt.exists
       THEN /\ returned' = Append(returned, read_lines(filepaths_txt.text))
            /\ UNCHANGED <<filepaths_txt, walks>>
       ELSE /\ walks' = walks + 1
            /\ filepaths_txt' = [exists |-> TRUE, text |-> write_lines(tree)]
            /\ returned' = Append(returned, tree)
    /\ UNCHANGED tree
    /\ UNCHANGED <<confVars, s3Vars, coordVars, workerVars, queueVars, dlVars, rmVars,
                   files, histVars>>

\* Between two calls, files are added to the root or removed from it.
ChangeTree ==
    /\ Len(returned) < MaxCalls
    /\ tree' \in Trees \ {tree}
    /\ UNCHANGED <<filepaths_txt, returned, walks>>
    /\ UNCHANGED <<confVars, s3Vars, coordVars, workerVars, queueVars, dlVars, rmVars,
                   files, histVars>>

\* ------------------------------------------------ S3Client (streaming/client.py)
\* SpecClient: the clock runs from 0 to MaxTime, the refetch interval is
\* 0..MaxInterval seconds, `client` is read at most MaxReads times.
MaxTime == 4
MaxInterval == 2
MaxReads == 3

\* boto3.client("s3", config=...): the credentials of the environment.
default_client == [credentials |-> "environment"]

\* boto3.client("s3", aws_access_key_id=credentials.access_key, ...): the
\* credentials provider.load() returned at time t.
metadata_client(t) == [credentials |-> "instance_metadata", loaded |-> t]

\* Mutant of cloud_context: os.environ is looked up at every read.
cloud_context_environ == environ

\* self._has_cloud_space_id, as read by the property.
cloud_context == has_cloud_space_id

\* Mutant of must_refetch: the interval itself already counts as elapsed.
must_refetch_at_interval(last, t, interval) ==
    last = << >> \/ (t - last[1]) >= interval

\* self._last_time is None or (time() - self._last_time) > self._refetch_interval
must_refetch(last, t, interval) ==
    last = << >> \/ (t - last[1]) > interval

\* One read of the property S3Client.client.  Loading the credentials and
\* building the client takes dt seconds; the second time() call is made
\* after it.
ClientGet ==
    /\ Len(got) < MaxReads
    /\ IF ~cloud_context
       THEN /\ IF client = 0
               THEN /\ built' = Append(built, default_client)
                    /\ client' = Len(built) + 1
               ELSE UNCHANGED <<built, client>>
            /\ UNCHANGED <<last_time, now>>
       ELSE IF must_refetch(last_time, now, refetch_interval)
            THEN \E dt \in 0..1 :
                    /\ now + dt <= MaxTime
                    /\ built' = Append(built, metadata_client(now))
                    /\ client' = Len(built) + 1
                    /\ now' = now + dt
                    /\ last_time' = <<now + dt>>
            ELSE UNCHANGED <<built, client, last_time, now>>
    /\ got' = Append(got, client')
    /\ UNCHANGED <<environ, has_cloud_space_id, refetch_interval>>
    /\ UNCHANGED <<confVars, listVars, coordVars, workerVars, queueVars, dlVars,
                   rmVars, files, histVars>>

\* A second passes.
Tick ==
    /\ now < MaxTime
    /\ now' = now + 1
    /\ UNCHANGED <<environ, has_cloud_space_id, refetch_interval, last_time,
                   client, built, got>>
    /\ UNCHANGED <<confVars, listVars, coordVars, workerVars, queueVars, dlVars,
                   rmVars, files, histVars>>

\* LIGHTNING_CLOUD_SPACE_ID is set in os.environ or deleted from it after the
\* S3Client was constructed.
SetEnviron ==
    /\ environ' = ~environ
    /\ UNCHANGED <<now, has_cloud_space_id, refetch_interval, last_time,
                   client, built, got>>
    /\ UNCHANGED <<confVars, listVars, coordVars, workerVars, queueVars, dlVars,
                   rmVars, files, histVars>>

\* ------------------------------------------------------------ specifications
Coordinator ==
    \/ Associate
    \/ CreateWorker
    \/ WaitCollected
    \/ ProgressThread
    \/ ProgressProcess
    \/ Terminate

Worker(w) ==
    \/ WorkerCollect(w)
    \/ WorkerStart(w)
    \/ WorkerGet(w)
    \/ WorkerPutRemove(w)

Downloader(w, d) ==
    \/ DownloaderGet(w, d)
    \/ DownloaderDownload(w, d)
    \/ DownloaderPut(w, d)

Remover(w) ==
    \/ RemoverGet(w)
    \/ RemoverExists(w)
    \/ RemoverRemove(w)

Next ==
    \/ Coordinator
    \/ \E w \in WorkerIds : Worker(w)
    \/ \E w \in WorkerIds : \E d \in DownloaderIds : Downloader(w, d)
    \/ \E w \in WorkerIds : Remover(w)

Spec == Init /\ [][Next]_vars

\* One worker alone with its downloaders and its remover: a single node, a
\* single worker, spawned by the coordinator, which then only waits.
InitWorker ==
    /\ Init
    /\ num_nodes = 1
    /\ num_workers = 1

NextWorker ==
    \/ Associate
    \/ CreateWorker
    \/ Worker(0)
    \/ \E d \in DownloaderIds : Downloader(0, d)
    \/ Remover(0)

SpecWorker == InitWorker /\ [][NextWorker]_vars

\* The worker processes of one node with their removers at work: two
\* workers, one downloader each, at most MaxRemoveItems user items that all
\* reference the same file, delete_cached_files = True, an s3 remote; the
\* coordinator spawns the workers and then only waits.
MaxRemoveItems == 3

InitRemove ==
    /\ NotListed
    /\ NoClient
    /\ user_items \in {[k \in 1..n |-> <<RootPath("a")>>] : n \in 0..MaxRemoveItems}
    /\ num_nodes = 1
    /\ node_rank = 0
    /\ num_workers = 2
    /\ num_downloaders = 1
    /\ delete_cached_files = TRUE
    /\ worker_type = "process"
    /\ remote_scheme = "s3"
    /\ files \in PreExisting
    /\ Idle

NextRemove ==
    \/ Associate
    \/ CreateWorker
    \/ \E w \in WorkerIds : Worker(w)
    \/ \E w \in WorkerIds : \E d \in DownloaderIds : Downloader(w, d)
    \/ \E w \in WorkerIds : Remover(w)

SpecRemove == InitRemove /\ [][NextRemove]_vars

\* The calls of _cached_list_filepaths for one root, on a file system that
\* changes between the calls; filepaths.txt does not exist at first.
InitFilepaths ==
    /\ NoClient
    /\ tree \in Trees
    /\ filepaths_txt = NoFile
    /\ returned = << >>
    /\ walks = 0
    /\ user_items = << >>
    /\ num_nodes = 1
    /\ node_rank = 0
    /\ num_workers = 1
    /\ num_downloaders = 1
    /\ delete_cached_files = FALSE
    /\ worker_type = "process"
    /\ remote_scheme = "s3"
    /\ files = {}
    /\ Idle

NextFilepaths ==
    \/ CachedListFilepaths
    \/ ChangeTree

SpecFilepaths == InitFilepaths /\ [][NextFilepaths]_vars

\* One node's run as in Spec, with at most MaxSigintItems user items, one
\* downloader per worker and an s3 remote, in which SIGINT may arrive at any
\* time once the handler is installed.
MaxSigintItems == 1

InitSigint ==
    /\ Init
    /\ Len(user_items) <= MaxSigintItems
    /\ num_nodes = 1
    /\ num_downloaders = 1
    /\ remote_scheme = "s3"

NextSigint ==
    \/ Next
    \/ Sigint

SpecSigint == InitSigint /\ [][NextSigint]_vars

\* One S3Client from its construction on: S3Client(refetch_interval) is
\* constructed at time 0, in a cloud context or not; then the clock runs, the
\* environment changes and `client` is read.
InitClient ==
    /\ environ \in BOOLEAN
    /\ now = 0
    /\ has_cloud_space_id = environ
    /\ refetch_interval \in 0..MaxInterval
    /\ last_time = << >>
    /\ client = 0
    /\ built = << >>
    /\ got = << >>
    /\ NotListed
    /\ user_items = << >>
    /\ num_nodes = 1
    /\ node_rank = 0
    /\ num_workers = 1
    /\ num_downloaders = 1
    /\ delete_cached_files = FALSE
    /\ worker_type = "process"
    /\ remote_scheme = "s3"
    /\ files = {}
    /\ Idle

NextClient ==
    \/ ClientGet
    \/ Tick
    \/ SetEnviron

SpecClient == InitClient /\ [][NextClient]_vars

\* One node's run as in Spec in which nothing fails: at most MaxLiveItems user
\* items, each with a file path, one downloader per worker, an s3 remote.
\* Every process and thread that can take a step eventually takes one: the
\* coordinator, each worker, each downloader and each remover are scheduled
\* by the operating system independently of each other.
MaxLiveItems == 1

InitLive ==
    /\ Init
    /\ Len(user_items) <= MaxLiveItems
    /\ without_paths(user_items) = {}
    /\ num_downloaders = 1
    /\ remote_scheme = "s3"

Fairness ==
    /\ WF_vars(Coordinator)
    /\ \A w \in WorkerIds : WF_vars(Worker(w))
    /\ \A w \in WorkerIds : \A d \in DownloaderIds : WF_vars(Downloader(w, d))
    /\ \A w \in WorkerIds : WF_vars(Remover(w))

SpecLive == InitLive /\ [][Next]_vars /\ Fairness

\* One node's run as in Spec, seen for its progress reports: a single node,
\* one downloader per worker, an s3 remote, delete_cached_files = False (no
\* remover is started and nothing is put on the remove queues), items that
\* all consist of the same single file, which is in the staging directory
\* before the run or not.
InitProgress ==
    /\ Init
    /\ \A k \in 1..Len(user_items) : user_items[k] = <<RootPath("a")>>
    /\ files \subseteq {"a"}
    /\ num_nodes = 1
    /\ num_downloaders = 1
    /\ delete_cached_files = FALSE
    /\ remote_scheme = "s3"

NextProgress ==
    \/ Coordinator
    \/ \E w \in WorkerIds : WorkerCollect(w) \/ WorkerStart(w) \/ WorkerGet(w)
    \/ \E w \in WorkerIds : \E d \in DownloaderIds : Downloader(w, d)

SpecProgress == InitProgress /\ [][NextProgress]_vars

\* The start of DataProcessor.run for every NODE_RANK the environment can
\* hold, inside 0..NUM_NODES-1 or not: the partition, the installation of the
\* SIGINT handler, the creation of the workers, and SIGINT.
InitRank ==
    /\ NotListed
    /\ NoClient
    /\ user_items \in {Range(n) : n \in 0..MaxPartItems}
    /\ num_nodes \in 1..MaxNodes
    /\ node_rank \in (0 - 1)..MaxNodes
    /\ num_workers \in 1..MaxWorkers
    /\ num_downloaders = 1
    /\ delete_cached_files = FALSE
    /\ worker_type \in {"thread", "process"}
    /\ remote_scheme = "s3"
    /\ files = {}
    /\ Idle

NextRank ==
    \/ Associate
    \/ CreateWorker
    \/ Sigint

SpecRank == InitRank /\ [][NextRank]_vars

NextPartition == Associate

SpecPartition == InitPartition /\ [][NextPartition]_vars


\* ================================================================== claims
\* The partition of node n: the one computed in this run for the current
\* node rank, the function's result for every other rank.
PartitionOf(n) ==
    IF n = node_rank THEN workers_user_items
    ELSE associated_items_to_workers(user_items, num_nodes, n, num_workers).workers_user_items

\* The (node, worker, offset) places an item value is assigned to.
PlacesOf(v) ==
    {p \in (0..(num_nodes - 1)) \X (1..num_workers) \X (1..Len(user_items)) :
        /\ p[3] <= Len(PartitionOf(p[1])[p[2]])
        /\ PartitionOf(p[1])[p[2]][p[3]] = v}

\* C1: taking the partitions of all node ranks 0..NUM_NODES-1 together, every
\* item of the list is assigned to exactly one (node, worker) pair.
C1_EachItemExactlyOneWorker ==
    pc = "create_workers" =>
        \A i \in 1..Len(user_items) : Cardinality(PlacesOf(user_items[i])) = 1

RECURSIVE Concat(_, _)
\* The first n lists of a sequence of lists, concatenated.
Concat(ss, n) == IF n = 0 THEN << >> ELSE Concat(ss, n - 1) \o ss[n]

\* C2: the worker partitions of a node rank are pairwise disjoint and their
\* union is exactly that node's slice of the item list (the items are
\* distinct, so: the partitions, put end to end, hold each item of the slice
\* once and nothing else).
C2_NodePartitionCoversNodeSlice ==
    pc = "create_workers" =>
        LET all   == Concat(workers_user_items, num_workers)
            slice == node_user_items(user_items, num_nodes, node_rank)
        IN  /\ Elems(all) = Elems(slice)
            /\ Len(all) = Len(slice)

\* The items at positions i with i mod n = k, in order (striding).
Stride(s, n, k) ==
    LET pos == SelectSeq([i \in 1..Len(s) |-> i - 1], LAMBDA i : i % n = k)
    IN  [j \in 1..Len(pos) |-> s[pos[j] + 1]]

\* C10: partitioning is striding: over the nodes first, then, inside the
\* node's items, item i goes to worker i mod W (one node, items 0..4, W = 2:
\* [[0,2,4],[1,3]]).
C10_Striding ==
    pc = "create_workers" =>
        \A w \in 0..(num_workers - 1) :
            workers_user_items[w + 1] =
                Stride(Stride(user_items, num_nodes, node_rank), num_workers, w)

\* C11: node n gets the contiguous block items[n*node_size : (n+1)*node_size],
\* node_size = len(items) div NUM_NODES, the last node taking the remainder
\* too; worker w of the node gets the contiguous sub-block of that block that
\* starts at offset w*worker_size, worker_size = block length div num_workers,
\* the last worker taking the remainder too.
C11_ContiguousSubBlocks ==
    pc = "create_workers" =>
        LET node_size   == Len(user_items) \div num_nodes
            block       == Slice(user_items, node_rank * node_size,
                                 IF node_rank = num_nodes - 1 THEN Len(user_items)
                                 ELSE (node_rank + 1) * node_size)
            worker_size == Len(block) \div num_workers
        IN  \A w \in 0..(num_workers - 1) :
                /\ begins[w + 1] = w * worker_size
                /\ workers_user_items[w + 1] =
                      Slice(block, w * worker_size,
                            IF w = num_workers - 1 THEN Len(block)
                            ELSE (w + 1) * worker_size)


\* ------------------------------------------------------- claims on the run
\* The workers spawned so far.
Spawned == 0..(workers - 1)

\* Item i (0-based) of worker w, as the partition assigned it.
AssignedItem(w, i) == workers_user_items[w + 1][i + 1]

\* The local indices of worker w.
Indices(w) == 0..(Len(workers_user_items[w + 1]) - 1)

\* The number of elements of an item that are file paths under root.
NumRootPaths(item) == Cardinality({j \in 1..Len(item) : item[j].dir = "root"})

\* The slots assigned so far in the cache of worker w.
SlotsWritten(w) == {cache[w][k].slot : k \in 1..Len(cache[w])}

\* Index i of worker w has been assigned into the cache.
Written(w, i) == (begins[w + 1] + i) \in SlotsWritten(w)

\* Index i of worker w has been reported on the ready queue.
Reported(w, i) ==
    \/ Written(w, i)
    \/ \E k \in 1..Len(download_is_ready_queue[w]) :
          download_is_ready_queue[w][k] = IndexMsg(i)

\* No worker and no sub-process died with an exception.
NoError ==
    /\ \A w \in WorkerIds : wpc[w] # "raised" /\ rpc[w] # "raised"
    /\ \A w \in WorkerIds : \A d \in DownloaderIds : dpc[w][d] # "raised"

\* C3: BaseWorker.run returns only after it has received exactly
\* num_downloaders None sentinels (one from each downloader, none left over);
\* at that point every index of its partition has been assigned into the
\* cache exactly once; cache.done() is called once, at the return, so after
\* the last assignment.
C3_RunReturnsAfterAllSentinels ==
    \A w \in Spawned :
        /\ cache_done[w] = IF wpc[w] = "returned" THEN 1 ELSE 0
        /\ wpc[w] = "returned" =>
              /\ is_none[w] = num_downloaders
              /\ \A d \in 0..(num_downloaders - 1) : dpc[w][d] = "returned"
              /\ download_is_ready_queue[w] = << >>
              /\ Len(cache[w]) = Len(workers_user_items[w + 1])
              /\ SlotsWritten(w) = {begins[w + 1] + i : i \in Indices(w)}

\* C3 witness: a worker with two items and two downloaders has returned.
C3_Witness ==
    \E w \in Spawned :
        /\ wpc[w] = "returned"
        /\ num_downloaders = 2
        /\ Len(cache[w]) = 2
        /\ is_none[w] = 2

\* The slot -> value pairs in the cache of worker w.
CacheMap(w) == {<<cache[w][k].slot, cache[w][k].value>> : k \in 1..Len(cache[w])}

\* What the partition alone determines: each item, prepared, at the slot
\* start_index + local index.
ExpectedCacheMap(w) ==
    {<<begins[w + 1] + i, prepare_item(item_cached(AssignedItem(w, i)))>> :
        i \in Indices(w)}

\* C4: the slot -> value mapping in a worker's cache when BaseWorker.run
\* returns is the one its partition determines, whatever the order in which
\* the downloaders reported the indices.
C4_CacheIndependentOfArrivalOrder ==
    \A w \in Spawned : wpc[w] = "returned" => CacheMap(w) = ExpectedCacheMap(w)

\* C4 witness: a worker has returned after index 1 arrived before index 0,
\* the two items being different.
C4_Witness ==
    \E w \in Spawned :
        /\ wpc[w] = "returned"
        /\ Len(cache[w]) = 2
        /\ cache[w][1].slot > cache[w][2].slot
        /\ cache[w][1].value # cache[w][2].value

\* C5: DataProcessor.run terminates a worker only after that worker has
\* written all its items and called cache.done(): when run returns, the cache
\* of every worker (stated here for the workers that were given items) is
\* complete and sealed.
C5_TerminatedOnlyAfterDone ==
    (pc = "finished" /\ NoError) =>
        \A w \in Spawned :
            Indices(w) # {} =>
                /\ cache_done[w] = 1
                /\ \A i \in Indices(w) : Written(w, i)

\* The names of the files downloaded into the staging directory so far, by
\* the downloaders of worker w and by all of them.
DownloadedBy(w) ==
    UNION {CachedNames(item_paths(AssignedItem(w, i))) :
             i \in {j \in Indices(w) : download_calls[w][j] > 0}}

DownloadedNames == UNION {DownloadedBy(w) : w \in Spawned}

\* C6: when DataProcessor.run returns with delete_cached_files = True, every
\* raw file downloaded into the staging directory has been deleted.
C6_DownloadedFilesDeletedAtReturn ==
    (pc = "finished" /\ delete_cached_files /\ NoError) =>
        files \cap DownloadedNames = {}

\* C7: a cached raw file is deleted only once every item that references it,
\* in this worker or in another worker of the node, has been written into
\* its cache (stated here for the items already reported ready: for them no
\* downloader will fetch the file again).
C7_DeletedOnlyWhenNoLongerNeeded ==
    [][\A f \in files \ files' :
          \A w \in Spawned : \A i \in Indices(w) :
              ( /\ f \in CachedNames(item_paths(AssignedItem(w, i)))
                /\ Reported(w, i) ) => Written(w, i)]_vars

\* C8 as stated: an index is reported ready only after exactly N download
\* requests, N the number of paths of the item.
C8_ExactlyNDownloads ==
    \A w \in Spawned : \A i \in Indices(w) :
        Reported(w, i) => download_calls[w][i] = NumRootPaths(AssignedItem(w, i))

\* C8, amended: an index is reported ready after exactly N download requests,
\* or after none when every cached file of the item was present as the
\* downloader took the unit; with remove=True the worker puts one remove
\* message per item, carrying the item's N original paths, after the item has
\* been assigned into the cache; without it, none.
C8_NDownloadsUnlessCached ==
    \A w \in Spawned :
        /\ \A i \in Indices(w) :
              Reported(w, i) =>
                  download_calls[w][i] =
                      IF i \in found_cached[w] THEN 0
                      ELSE NumRootPaths(AssignedItem(w, i))
        /\ \A k \in 1..Len(remove_requests[w]) :
              LET q == remove_requests[w][k]
              IN  /\ delete_cached_files
                  /\ Written(w, q.index)
                  /\ Len(q.paths) = NumRootPaths(AssignedItem(w, q.index))
                  /\ \A j \in 1..Len(q.paths) :
                        q.paths[j] \in Elems(AssignedItem(w, q.index))
                  /\ \A k2 \in 1..Len(remove_requests[w]) :
                        remove_requests[w][k2].index = q.index => k2 = k
        /\ (wpc[w] = "returned" /\ delete_cached_files) =>
              {remove_requests[w][k].index : k \in 1..Len(remove_requests[w])}
                  = Indices(w)

\* C8 witness: an item with two paths was downloaded with two requests, then
\* written, and its two paths were put on the remove queue.
C8_Witness ==
    \E w \in Spawned : \E k \in 1..Len(remove_requests[w]) :
        /\ Len(remove_requests[w][k].paths) = 2
        /\ download_calls[w][remove_requests[w][k].index] = 2
        /\ Written(w, remove_requests[w][k].index)

\* C9: when _download_data_target takes a unit (index, paths) whose cached
\* files all exist, it puts index on the ready queue, downloads nothing, and
\* goes on to the next unit.
C9_CachedUnitReportedWithoutDownload ==
    [][\A w \in WorkerIds : \A d \in DownloaderIds :
          ( /\ dpc[w][d] = "get"
            /\ to_download_queues[w][d] # << >>
            /\ to_download_queues'[w][d] = Tail(to_download_queues[w][d])
            /\ ~Head(to_download_queues[w][d]).none
            /\ CachedNames(Head(to_download_queues[w][d]).paths) \subseteq files )
          => ( /\ download_is_ready_queue'[w] =
                     Append(download_is_ready_queue[w],
                            IndexMsg(Head(to_download_queues[w][d]).index))
               /\ download_calls' = download_calls
               /\ files' = files
               /\ dpc'[w][d] = "get" )]_vars

\* C9 witness: an index was reported from the already-downloaded branch, no
\* download was made for it, and its downloader went on to its sentinel.
C9_Witness ==
    \E w \in Spawned : \E i \in found_cached[w] :
        /\ download_calls[w][i] = 0
        /\ Written(w, i)
        /\ dpc[w][i % num_downloaders] = "returned"

\* The items of worker w that have no element starting with root.
Offending(w) == {i \in Indices(w) : NumRootPaths(AssignedItem(w, i)) = 0}

\* C12: _collect_paths raises ValueError when an item has no string element
\* starting with root; this happens before any downloader or remover is
\* started, and nothing is ever written into the cache of that worker, the
\* offending item included.
C12_NoPathsRaisesBeforeStart ==
    \A w \in Spawned :
        /\ (Offending(w) # {} /\ wpc[w] # "start") => wpc[w] = "raised"
        /\ wpc[w] = "raised" =>
              /\ Offending(w) # {}
              /\ \A i \in Offending(w) : collected_items[w] <= i
              /\ \A d \in DownloaderIds : dpc[w][d] = "absent"
              /\ \A d \in DownloaderIds : to_download_queues[w][d] = << >>
              /\ rpc[w] = "absent"
              /\ cache[w] = << >>
              /\ cache_done[w] = 0

\* C12 witness: a worker collected the paths of its first item and raised on
\* its second one, which has no file path.
C12_Witness ==
    \E w \in Spawned :
        /\ wpc[w] = "raised"
        /\ collected_items[w] = 1
        /\ Offending(w) = {1}

\* A worker raised in _collect_paths or a downloader raised on the URL scheme.
ConfigError ==
    \/ \E w \in WorkerIds : wpc[w] = "raised"
    \/ \E w \in WorkerIds : \E d \in DownloaderIds : dpc[w][d] = "raised"

\* C13: when a worker hits a configuration error, DataProcessor.run aborts as
\* a whole: it does not complete by skipping the offending item, and the
\* coordinator does not stay blocked in one of its waiting loops (it is never
\* in such a loop with nothing left that could run).
C13_ConfigErrorAbortsRun ==
    ConfigError =>
        /\ pc # "finished"
        /\ ~(pc \in {"wait_collected", "progress"} /\ ~ENABLED Next)

\* The indices of worker w that downloader d has still to take after index i.
LaterUnits(w, d, i) == {j \in Indices(w) : j % num_downloaders = d /\ j > i}

RaisedDownloaders(w) == {d \in DownloaderIds : dpc[w][d] = "raised"}

\* The sentinels worker w has received or has waiting on its ready queue.
SentinelsSeen(w) ==
    is_none[w] + Cardinality({k \in 1..Len(download_is_ready_queue[w]) :
                                 download_is_ready_queue[w][k].none})

\* C15: once a downloader of a worker has died with an exception, the worker
\* never returns from run(): it stays in its loop on the ready queue, where at
\* most num_downloaders - 1 sentinels ever arrive, cache.done() is not called,
\* and neither the worker nor the coordinator sees an error.
C15_DownloaderErrorHangsWorker ==
    \A w \in Spawned :
        RaisedDownloaders(w) # {} =>
            /\ wpc[w] \in {"loop", "put_remove"}
            /\ SentinelsSeen(w) <= num_downloaders - Cardinality(RaisedDownloaders(w))
            /\ is_none[w] < num_downloaders
            /\ cache_done[w] = 0
            /\ pc # "error"

\* C15 witness: one of two downloaders raised, the other forwarded its
\* sentinel, and the worker waits on the empty ready queue.
C15_Witness ==
    \E w \in Spawned :
        /\ num_downloaders = 2
        /\ Cardinality(RaisedDownloaders(w)) = 1
        /\ is_none[w] = 1
        /\ wpc[w] = "loop"
        /\ download_is_ready_queue[w] = << >>

\* C16 as stated: once its remover has died with an exception, a worker never
\* finishes its run.
C16_RemoverErrorHangsWorker ==
    \A w \in Spawned : rpc[w] = "raised" => wpc[w] # "returned"

\* C16, amended: the death of its remover does not hold a worker up.  The
\* worker never waits on the remove queue, it only puts on it, and a put never
\* blocks: with a dead remover the worker can always take its next step, and
\* when it waits it waits on the ready queue for a downloader that has not
\* forwarded its sentinel yet; it sees no error.
C16_RemoverErrorDoesNotBlockWorker ==
    \A w \in Spawned :
        rpc[w] = "raised" =>
            /\ wpc[w] \in {"loop", "put_remove", "returned", "killed"}
            /\ wpc[w] = "put_remove" => ENABLED WorkerPutRemove(w)
            /\ (wpc[w] = "loop" /\ download_is_ready_queue[w] # << >>) =>
                  ENABLED WorkerGet(w)
            /\ (wpc[w] = "loop" /\ download_is_ready_queue[w] = << >>) =>
                  \E d \in 0..(num_downloaders - 1) : dpc[w][d] # "returned"

\* C16 witness: a worker whose remover died went on to put the paths of
\* another item on the remove queue, and has finished its run.
C16_Witness ==
    \E w \in Spawned :
        /\ rpc[w] = "raised"
        /\ wpc[w] = "returned"
        /\ cache_done[w] = 1
        /\ Len(remove_queue[w]) >= 2

\* C17: _cached_list_filepaths walks the file system only when filepaths.txt
\* is absent, so once; every later call for the same root returns exactly the
\* list (same paths, same order) that the first call returned and wrote.
C17_LaterCallsReturnFirstList ==
    /\ walks = IF filepaths_txt.exists THEN 1 ELSE 0
    /\ \A k \in 1..Len(returned) : returned[k] = returned[1]

\* A process or thread that is not running (any more).
Ended == {"returned", "raised", "killed"}

\* C18: SIGINT is handled by _signal_handler only once the handler has been
\* installed; the handler force-terminates every worker in self.workers
\* (process mode: the worker is killed; thread mode: join(0) kills the
\* worker's downloaders and its remover) and exits the process; nothing is
\* drained or rolled back (queues, staging directory and caches are left as
\* they are, no cache is sealed), and the coordinator does nothing afterwards.
C18_SigintKillsWorkersAndExits ==
    [][ /\ (pc # "exited" /\ pc' = "exited") =>
              /\ handler_installed
              /\ \A w \in Spawned :
                    IF worker_type = "process"
                    THEN wpc'[w] \in Ended /\ (wpc[w] \notin Ended => wpc'[w] = "killed")
                    ELSE /\ \A d \in 0..(num_downloaders - 1) :
                               dpc'[w][d] \in Ended \cup {"absent"}
                         /\ rpc'[w] \in Ended \cup {"absent"}
                         /\ wpc'[w] \in Ended
              /\ UNCHANGED <<queueVars, files, cache, cache_done, counter>>
        /\ pc = "exited" => UNCHANGED coordVars ]_vars

\* C18 witness: the process has exited on SIGINT with a worker killed in the
\* middle of its work: an item written, its paths waiting on the remove
\* queue, the cache not sealed.
C18_Witness ==
    \E w \in Spawned :
        /\ pc = "exited"
        /\ wpc[w] = "killed"
        /\ cache[w] # << >>
        /\ cache_done[w] = 0
        /\ remove_queue[w] # << >>

\* C19: after SIGINT has been handled, no process spawned by the run is left
\* running: the workers, their downloaders and their removers have all
\* ended, in thread mode and in process mode.
C19_NoProcessLeftAfterSigint ==
    pc = "exited" =>
        \A w \in Spawned :
            /\ wpc[w] \in Ended
            /\ \A d \in DownloaderIds : dpc[w][d] \in Ended \cup {"absent"}
            /\ rpc[w] \in Ended \cup {"absent"}

\* The counter of the last (index, counter) message the coordinator received
\* from worker w: the worker sends 1, 2, ... in order, so it is the worker's
\* counter less the messages of that worker still on the worker queue.
LastReceived(w) ==
    counter[w] - Cardinality({k \in 1..Len(worker_queue) : worker_queue[k][1] = w})

\* The progress total as the claim defines it.
ProgressTotal ==
    IF worker_type = "process"
    THEN SumUpTo([w \in WorkerIds |-> LastReceived(w)], MaxWorkers)
    ELSE SumUpTo(counter, workers)

\* C20: the coordinator's total is the sum of the last counters received
\* from the workers (process mode) or of the counters polled (thread mode),
\* and the progress loop exits exactly when the total equals the number of
\* items assigned to the node's workers: it has exited only with that total,
\* and it does not stay in the loop, unable to move, once the total is there.
C20_ProgressLoopExitsAtTotal ==
    /\ (pc \in {"progress", "terminate", "finished"} /\ worker_type = "process") =>
          current_total = ProgressTotal
    /\ (pc \in {"progress", "terminate", "finished"} /\ worker_type = "thread") =>
          current_total <= ProgressTotal
    /\ pc \in {"terminate", "finished"} => current_total = num_items
    /\ (pc = "progress" /\ ProgressTotal = num_items) => ENABLED Coordinator

\* What the latest read of `client` returned.
LastGot == got[Len(got)]

\* C21: in a cloud context, a read of `client` that is the first one, or is
\* made strictly more than refetch_interval seconds after the recorded fetch
\* time, builds a new client from instance-metadata credentials loaded at
\* that read, returns it and records the time; every other read returns the
\* existing client and leaves the client and the recorded time unchanged.
C21_CloudClientRefetchedAfterInterval ==
    [][(has_cloud_space_id /\ got' # got) =>
        IF last_time = << >> \/ now - last_time[1] > refetch_interval
        THEN /\ Len(built') = Len(built) + 1
             /\ built'[Len(built')] = metadata_client(now)
             /\ client' = Len(built')
             /\ client' # client
             /\ last_time' = <<now'>>
             /\ got' = Append(got, client')
        ELSE /\ UNCHANGED <<built, client, last_time>>
             /\ got' = Append(got, client)]_vars

\* C21 witness: in a cloud context the first read built a client, the second
\* read returned it, the third read, made after the interval, built another.
C21_Witness ==
    /\ has_cloud_space_id
    /\ got = <<1, 1, 2>>
    /\ Len(built) = 2
    /\ refetch_interval > 0
    /\ last_time = <<now>>

\* C22: nothing is built before the first read of `client`; outside a cloud
\* context at most one client is ever built, with the credentials of the
\* environment, every read returns that one client however late it is made,
\* and no fetch time is recorded; the context chosen at construction never
\* changes, whatever happens to os.environ, and decides the credentials of
\* every client built.
C22_NonCloudClientBuiltOnce ==
    /\ [](/\ got = << >> => (client = 0 /\ built = << >>)
          /\ ~has_cloud_space_id =>
                /\ Len(built) <= 1
                /\ \A k \in 1..Len(built) : built[k] = default_client
                /\ \A k \in 1..Len(got) : got[k] = 1
                /\ last_time = << >>
          /\ has_cloud_space_id =>
                \A k \in 1..Len(built) : built[k].credentials = "instance_metadata")
    /\ [][has_cloud_space_id' = has_cloud_space_id]_vars

\* C22 witness: outside a cloud context, `client` was read MaxReads times, the
\* last time at the end of the clock and with LIGHTNING_CLOUD_SPACE_ID set in
\* the meantime; one client was built.
C22_Witness ==
    /\ ~has_cloud_space_id
    /\ environ
    /\ Len(got) = MaxReads
    /\ LastGot = 1
    /\ now = MaxTime
    /\ Len(built) = 1

\* The (node rank, worker index) pairs of the workers a job can have.
JobWorkers == (0..(MaxRunNodes - 1)) \X (0..(MaxWorkers - 1))

\* Worker w has started its downloaders and its remover: exactly
\* num_downloaders downloaders, and a remover iff removal is enabled.
StartedOwn(w) ==
    /\ \A d \in DownloaderIds : dpc[w][d] # "absent" <=> d < num_downloaders
    /\ rpc[w] # "absent" <=> delete_cached_files

\* Worker w has started no downloader and no remover.
StartedNone(w) ==
    /\ \A d \in DownloaderIds : dpc[w][d] = "absent"
    /\ rpc[w] = "absent"

InputQueue(w, d) == downloader_queue(paths[w], num_downloaders, d)

\* The number of values downloader d of worker w has consumed so far.
Consumed(w, d) == Len(InputQueue(w, d)) - Len(to_download_queues[w][d])

\* The unit indices among the first n values of a queue, in order.
UnitIndices(q, n) ==
    LET units == SelectSeq(SubSeq(q, 1, n), LAMBDA m : ~m.none)
    IN  [k \in 1..Len(units) |-> units[k].index]

\* Every index put on the ready queue of worker w so far, in the order of
\* the puts: those the worker has taken off the queue and written (it takes
\* them in queue order), then those still on the queue.
PutHistory(w) ==
    [k \in 1..Len(cache[w]) |-> cache[w][k].slot - begins[w + 1]]
        \o UnitIndices(download_is_ready_queue[w], Len(download_is_ready_queue[w]))

\* The indices downloader d of worker w has put, in the order of the puts
\* (index i is handled by downloader i % num_downloaders).
PutsOf(w, d) == SelectSeq(PutHistory(w), LAMBDA i : i % num_downloaders = d)

\* The sentinels the downloaders of worker w have put so far.
SentinelsPut(w) ==
    is_none[w] + Len(SelectSeq(download_is_ready_queue[w], LAMBDA m : m.none))

ToVisit(w) == {replace(rcur[w][k], "root", "cache").name : k \in 1..Len(rcur[w])}

\* C25: a remover never fails on a listed path: a path whose cached file is
\* not there is skipped without an error; a remover deletes nothing but the
\* cached file of the listed path it is visiting; it has returned only after
\* it received None, the last value of its queue.
C25_RemoverRemovesListedSkipsMissing ==
    \A w \in WorkerIds :
        /\ rpc[w] # "raised"
        /\ rpc[w] = "unlink" => rcur[w] # << >>
        /\ rpc[w] = "returned" => (remove_queue[w] = << >> /\ rcur[w] = << >>)

\* The item list of this node: its block of user_items.
NodeItems == node_user_items(user_items, num_nodes, node_rank)

\* C26: every value a worker has written is its item of local index i,
\* prepared, at slot begins[worker] + i; that slot is the position of the
\* item in the node's item list; two different workers of the node never
\* write the same slot.
C26_SlotIsPositionInNodeList ==
    /\ \A w \in Spawned : \A k \in 1..Len(cache[w]) :
          LET slot == cache[w][k].slot
              i    == slot - begins[w + 1]
          IN  /\ i \in Indices(w)
              /\ cache[w][k].value = prepare_item(item_cached(AssignedItem(w, i)))
              /\ slot \in 0..(Len(NodeItems) - 1)
              /\ cache[w][k].value = prepare_item(item_cached(NodeItems[slot + 1]))
    /\ \A w1, w2 \in Spawned :
          w1 # w2 => SlotsWritten(w1) \cap SlotsWritten(w2) = {}

\* C27: if no item lacks a file path and no download fails (the remote is an
\* s3 URL), DataProcessor.run eventually returns, whatever the number of
\* items and the worker type.
C27_RunEventuallyReturns ==
    (without_paths(user_items) = {} /\ ~bad_scheme(remote_scheme))
        => <>(pc = "finished")

\* C28: in thread mode, if no item lacks a file path, the start-up wait of
\* _create_thread_workers eventually ends: the coordinator gets past it.
C28_ThreadStartupWaitEnds ==
    (worker_type = "thread" /\ without_paths(user_items) = {})
        => <>(pc \in {"progress", "terminate", "finished"})

\* The counters of the messages of worker w on the worker queue, in order.
CountersInFlight(w) ==
    LET ms == SelectSeq(worker_queue, LAMBDA m : m[1] = w)
    IN  [k \in 1..Len(ms) |-> ms[k][2]]

\* The number of items the partition assigned to worker w.
NumAssigned(w) == IF w \in Spawned THEN Len(workers_user_items[w + 1]) ELSE 0

\* C29: a worker's counter is the number of items it has written and goes up
\* by one with each write; the (index, counter) messages of a worker that
\* are on their way to the coordinator carry consecutive counters, above the
\* last one the coordinator received and up to the worker's counter; the
\* coordinator's total never decreases and never exceeds the number of items
\* assigned to the node's workers.
C29_ProgressTotalMonotoneAndBounded ==
    /\ [](\A w \in WorkerIds :
            /\ counter[w] = Len(cache[w])
            /\ counter[w] <= NumAssigned(w)
            /\ workers_tracker[w] <= counter[w]
            /\ LET cs == CountersInFlight(w)
               IN  /\ \A k \in 1..Len(cs) : cs[k] = counter[w] - Len(cs) + k
                   /\ cs # << >> => workers_tracker[w] < cs[1]
                   /\ worker_type = "process" => workers_tracker[w] = counter[w] - Len(cs))
    /\ [](pc \notin {"setup", "error"} => current_total <= num_items)
    /\ [][/\ current_total' >= current_total
          /\ \A w \in WorkerIds :
                /\ counter'[w] \in {counter[w], counter[w] + 1}
                /\ counter'[w] = counter[w] + 1 <=> Len(cache'[w]) = Len(cache[w]) + 1
                /\ workers_tracker'[w] >= workers_tracker[w]]_vars

\* C29 witness: in process mode a worker wrote two items and the coordinator
\* received both of its messages; the total is 2.
C29_Witness ==
    /\ worker_type = "process"
    /\ \E w \in WorkerIds : counter[w] = 2 /\ workers_tracker[w] = 2
    /\ current_total = 2

\* NODE_RANK is one of 0..NUM_NODES-1.
RankInRange == node_rank \in 0..(num_nodes - 1)

\* C30: when NODE_RANK is not in 0..NUM_NODES-1 the partition function
\* returns nothing, and the run is either still before the partition or has
\* failed there: the SIGINT handler is not installed, no worker was spawned,
\* and neither the creation of a worker nor the handler can ever run.  The
\* run fails at the partition for no other reason.
C30_RankOutOfRangeFailsBeforeWorkers ==
    /\ ~RankInRange =>
          /\ associated_items_to_workers(user_items, num_nodes, node_rank,
                                         num_workers) = NoPartition
          /\ pc \in {"setup", "error"}
          /\ pc = "setup" => ENABLED Associate
          /\ ~handler_installed
          /\ workers = 0
          /\ \A w \in WorkerIds : wpc[w] = "absent"
          /\ begins = << >> /\ workers_user_items = << >>
          /\ ~ENABLED CreateWorker
          /\ ~ENABLED Sigint
    /\ pc = "error" => ~RankInRange

\* C30 witness: NODE_RANK = NUM_NODES, a non-empty item list; the run has
\* failed at the partition with no worker spawned.
C30_Witness ==
    /\ node_rank = num_nodes
    /\ user_items # << >>
    /\ pc = "error"
    /\ workers = 0
    /\ ~handler_installed

=============================================================================
